---------------------------- MODULE Spec2Model ----------------------------
(***************************************************************************)
(* Propositional formulas: the token scanner, the recursive-descent       *)
(* parser, the printer, the evaluator, the classifier and the DNF / CNF   *)
(* synthesizers of propositions/syntax.py and propositions/semantics.py.  *)
(*                                                                         *)
(* A Python str is a sequence of one-character strings, a Formula object  *)
(* is a record [root, first, second], a dict is a sequence of <<key,      *)
(* value>> pairs in insertion order, and a call either returns a value or *)
(* raises AssertionError.                                                  *)
(***************************************************************************)
EXTENDS Integers, Sequences, FiniteSets, TLC

VARIABLES
    string,            \* the str given to the parser
    formula,           \* the Formula given to a method or function
    model,             \* the dict given to evaluate
    substitution_map,  \* the dict given to substitute_variables
    variables,         \* the list of names given to all_models / synthesize
    values,            \* the truth-table column given to synthesize
    call,              \* the function called last
    ret                \* what it returned or raised

vars == <<string, formula, model, substitution_map, variables, values, call, ret>>

---------------------------------------------------------------------------
(* Bounds of the checked instances.                                        *)

\* Most nodes (variables, constants and operators) of a formula tree given
\* as input.
MaxNodes == 5

\* Longest input string over Alphabet that is enumerated exhaustively.
MaxRaw == 3

\* Most variable names in the list given to all_models and the synthesizers.
MaxVars == 2

---------------------------------------------------------------------------
(* Python values.                                                          *)

None == [none |-> TRUE]

\* An assert statement that fails.
AssertionError == [raised |-> "AssertionError"]

IsRaised(x) == x = AssertionError

\* A value a call returns (kept apart from a raised exception).
Return(v) == [value |-> v]

\* The tuple (formula, rest) that _parse_prefix returns.
Pair(f, r) == [formula |-> f, rest |-> r]

LowerPZ == {"p", "q", "r", "s", "t", "u", "v", "w", "x", "y", "z"}

Decimals == {"0", "1", "2", "3", "4", "5", "6", "7", "8", "9"}

\* str.isdecimal(): non-empty and every character a decimal digit.
isdecimal(s) == Len(s) > 0 /\ \A i \in 1..Len(s) : s[i] \in Decimals

\* string[a:] and string[:b] with Python's 0-based, end-exclusive indices.
SliceFrom(s, a) == SubSeq(s, a + 1, Len(s))

SliceTo(s, b) == SubSeq(s, 1, IF b > Len(s) THEN Len(s) ELSE b)

---------------------------------------------------------------------------
(* propositions/syntax.py                                                  *)

is_variable(s) ==
    /\ s[1] \in LowerPZ
    /\ (Len(s) = 1 \/ isdecimal(SliceFrom(s, 1)))

is_constant(s) == s = <<"T">> \/ s = <<"F">>

is_unary(s) == s = <<"~">>

is_binary(s) == s = <<"&">> \/ s = <<"|">> \/ s = <<"-", ">">>

\* The loop of parse_str that collects the decimals after a variable letter:
\* the number of leading decimal characters of s.
RECURSIVE LenDecimals(_)
LenDecimals(s) ==
    IF s = <<>> THEN 0
    ELSE IF s[1] \in Decimals THEN 1 + LenDecimals(Tail(s))
    ELSE 0

\* The for/else loop of parse_str over a string that starts with "(": i is
\* the 1-based position of the next character, counter the nesting count.
\* Only a character that is no parenthesis, met with counter = 0, breaks;
\* a loop that runs to the end leaves ind = len(string).
RECURSIVE ScanParen(_, _, _)
ScanParen(s, i, counter) ==
    IF i > Len(s) THEN [ind |-> Len(s), counter |-> counter]
    ELSE IF s[i] = "(" THEN ScanParen(s, i + 1, counter + 1)
    ELSE IF s[i] = ")" THEN ScanParen(s, i + 1, counter - 1)
    ELSE IF counter = 0 THEN [ind |-> i - 1, counter |-> counter]
    ELSE ScanParen(s, i + 1, counter)

\* parse_str without its "->" branch: an arrow is scanned as the single
\* character "-".
parse_str_without_arrow(s) ==
    IF is_variable(<<s[1]>>) THEN
        LET len_decimals == LenDecimals(SliceFrom(s, 1))
        IN  <<SliceTo(s, len_decimals + 1), SliceFrom(s, len_decimals + 1)>>
    ELSE IF s[1] = "(" THEN
        LET scan == ScanParen(s, 1, 0)
        IN  IF scan.counter # 0 THEN <<<<s[1]>>, SliceFrom(s, 1)>>
            ELSE <<SliceTo(s, scan.ind), SliceFrom(s, scan.ind)>>
    ELSE <<<<s[1]>>, SliceFrom(s, 1)>>

\* parse_str(string) for a non-empty string: <<first unit, rest>>.
parse_str(s) ==
    IF is_variable(<<s[1]>>) THEN
        LET len_decimals == LenDecimals(SliceFrom(s, 1))
        IN  <<SliceTo(s, len_decimals + 1), SliceFrom(s, len_decimals + 1)>>
    ELSE IF SliceTo(s, 2) = <<"-", ">">> THEN
        <<SliceTo(s, 2), SliceFrom(s, 2)>>
    ELSE IF s[1] = "(" THEN
        LET scan == ScanParen(s, 1, 0)
        IN  IF scan.counter # 0 THEN <<<<s[1]>>, SliceFrom(s, 1)>>
            ELSE <<SliceTo(s, scan.ind), SliceFrom(s, scan.ind)>>
    ELSE <<<<s[1]>>, SliceFrom(s, 1)>>

\* Formula.__init__(root, first, second): the new object, or AssertionError.
Formula(root, first, second) ==
    IF is_variable(root) \/ is_constant(root) THEN
        IF first = None /\ second = None
        THEN [root |-> root, first |-> None, second |-> None]
        ELSE AssertionError
    ELSE IF is_unary(root) THEN
        IF first # None /\ second = None
        THEN [root |-> root, first |-> first, second |-> None]
        ELSE AssertionError
    ELSE IF is_binary(root) /\ first # None /\ second # None
        THEN [root |-> root, first |-> first, second |-> second]
        ELSE AssertionError

\* __repr__ that leaves out the parentheses of a binary formula.
RECURSIVE repr_without_parentheses(_)
repr_without_parentheses(f) ==
    IF is_variable(f.root) \/ is_constant(f.root) THEN f.root
    ELSE IF is_unary(f.root) THEN f.root \o repr_without_parentheses(f.first)
    ELSE repr_without_parentheses(f.first) \o f.root
         \o repr_without_parentheses(f.second)

\* Formula.__repr__: the standard string of a formula.
RECURSIVE repr(_)
repr(f) ==
    IF is_variable(f.root) \/ is_constant(f.root) THEN f.root
    ELSE IF is_unary(f.root) THEN f.root \o repr(f.first)
    ELSE <<"(">> \o repr(f.first) \o f.root \o repr(f.second) \o <<")">>

\* "string not found!"
MsgStringNotFound ==
    << "s", "t", "r", "i", "n", "g", " ", "n", "o", "t", " ", "f", "o", "u", "n",
       "d", "!" >>

\* " is unary not a valid formula!"
MsgUnaryNotValid ==
    << " ", "i", "s", " ", "u", "n", "a", "r", "y", " ", "n", "o", "t", " ", "a",
       " ", "v", "a", "l", "i", "d", " ", "f", "o", "r", "m", "u", "l", "a", "!" >>

\* "some of '(' are not closed!"
MsgNotClosed ==
    << "s", "o", "m", "e", " ", "o", "f", " ", "'", "(", "'", " ", "a", "r", "e",
       " ", "n", "o", "t", " ", "c", "l", "o", "s", "e", "d", "!" >>

\* "there should be two formulas but one found!"
MsgOneFound ==
    << "t", "h", "e", "r", "e", " ", "s", "h", "o", "u", "l", "d", " ", "b", "e",
       " ", "t", "w", "o", " ", "f", "o", "r", "m", "u", "l", "a", "s", " ", "b",
       "u", "t", " ", "o", "n", "e", " ", "f", "o", "u", "n", "d", "!" >>

\* "wrong connective is been used!"
MsgWrongConnective ==
    << "w", "r", "o", "n", "g", " ", "c", "o", "n", "n", "e", "c", "t", "i", "v",
       "e", " ", "i", "s", " ", "b", "e", "e", "n", " ", "u", "s", "e", "d", "!" >>

\* " is not a valid formula!"
MsgNotValid ==
    << " ", "i", "s", " ", "n", "o", "t", " ", "a", " ", "v", "a", "l", "i", "d",
       " ", "f", "o", "r", "m", "u", "l", "a", "!" >>

\* "couldn't parse "
MsgCouldntParse ==
    << "c", "o", "u", "l", "d", "n", "'", "t", " ", "p", "a", "r", "s", "e", " " >>

\* Formula._parse_prefix(string): Pair(formula, rest), Pair(None, message), or
\* the AssertionError of a Formula(...) call made with a None operand.  The
\* second element of a failed inner call (its message) is read as the
\* unparsed rest, as the code does.
RECURSIVE parse_prefix(_)
parse_prefix(s) ==
    IF s = <<>> THEN Pair(None, MsgStringNotFound)
    ELSE
    LET ps == parse_str(s)
        first == ps[1]
        rest == ps[2]
    IN
    IF is_variable(first) \/ is_constant(first) THEN
        Pair(Formula(first, None, None), rest)
    ELSE IF is_binary(first) THEN Pair(None, s)
    ELSE IF is_unary(first) THEN
        IF rest = <<>> THEN Pair(None, first \o MsgUnaryNotValid)
        ELSE
        LET operand == parse_prefix(rest)
        IN  IF IsRaised(operand) THEN operand
            ELSE LET f == Formula(first, operand.formula, None)
                 IN  IF IsRaised(f) THEN f ELSE Pair(f, operand.rest)
    ELSE IF first[1] = "(" THEN
        IF first = <<"(">> THEN Pair(None, MsgNotClosed)
        ELSE
        LET left == parse_prefix(SubSeq(first, 2, Len(first) - 1))
        IN
        IF IsRaised(left) THEN left
        ELSE IF left.rest = <<>> THEN Pair(None, MsgOneFound)
        ELSE
        LET cs == parse_str(left.rest)
            connective == cs[1]
        IN
        IF ~is_binary(connective) THEN Pair(None, MsgWrongConnective)
        ELSE
        LET right == parse_prefix(cs[2])
        IN
        IF IsRaised(right) THEN right
        ELSE IF right.rest # <<>> THEN
            IF right.formula = None
            THEN Pair(None, right.rest \o MsgNotValid)
            ELSE Pair(None, MsgCouldntParse \o right.rest \o <<"!">>)
        ELSE
        LET f == Formula(connective, left.formula, right.formula)
        IN  IF IsRaised(f) THEN f ELSE Pair(f, rest)
    ELSE Pair(None, s \o MsgNotValid)

\* is_formula that tests the returned formula instead of the remainder.
is_formula_ignoring_rest(s) ==
    LET r == parse_prefix(s)
    IN  IF IsRaised(r) THEN r
        ELSE IF r.formula = None THEN Return(FALSE)
        ELSE Return(TRUE)

\* Formula.is_formula(string): Return(bool), or the exception of the parse.
is_formula(s) ==
    LET r == parse_prefix(s)
    IN  IF IsRaised(r) THEN r
        ELSE IF r.rest # <<>> THEN Return(FALSE)
        ELSE Return(TRUE)

\* Formula.parse(string): the parsed formula; the assert fails (or the
\* parse itself raises) on a string that is no formula.
parse(s) ==
    LET ok == is_formula(s)
    IN  IF IsRaised(ok) THEN ok
        ELSE IF ~ok.value THEN AssertionError
        ELSE parse_prefix(s).formula

\* Formula.variables(): the set of variable names of a formula.
RECURSIVE formula_variables(_)
formula_variables(f) ==
    IF is_variable(f.root) THEN {f.root}
    ELSE IF is_constant(f.root) THEN {}
    ELSE IF is_unary(f.root) THEN formula_variables(f.first)
    ELSE formula_variables(f.first) \cup formula_variables(f.second)

\* Formula.substitute_variables(substitution_map): the body is the assert
\* loop over the keys and nothing else, so a call that passes it returns
\* None.
substitute_variables(f, smap) ==
    IF \E i \in DOMAIN smap : ~is_variable(smap[i][1])
    THEN AssertionError
    ELSE None

---------------------------------------------------------------------------
(* propositions/semantics.py                                               *)

\* dict operations on a sequence of <<key, value>> pairs.
Keys(d) == {d[i][1] : i \in DOMAIN d}

Lookup(d, k) == d[CHOOSE i \in DOMAIN d : d[i][1] = k][2]

\* a | b: the keys of a in their order (with b's value where b has the key),
\* then the keys b adds, in b's order.
RECURSIVE DictUnion(_, _)
DictUnion(a, b) ==
    IF b = <<>> THEN a
    ELSE LET k == b[1][1]
             upd == IF k \in Keys(a)
                    THEN [i \in DOMAIN a |-> IF a[i][1] = k THEN b[1] ELSE a[i]]
                    ELSE Append(a, b[1])
         IN  DictUnion(upd, Tail(b))

is_model(m) == \A i \in DOMAIN m : is_variable(m[i][1])

\* variables(model): the keys, after the assert.
model_variables(m) == Keys(m)

\* evaluate with "->" computed as `first and second`.
RECURSIVE evaluate_implication_as_and(_, _)
evaluate_implication_as_and(f, m) ==
    IF ~is_model(m) THEN AssertionError
    ELSE IF ~(formula_variables(f) \subseteq model_variables(m)) THEN AssertionError
    ELSE IF is_variable(f.root) THEN Return(Lookup(m, f.root))
    ELSE IF is_constant(f.root) THEN
        IF f.root = <<"T">> THEN Return(TRUE) ELSE Return(FALSE)
    ELSE IF is_unary(f.root) THEN
        LET a == evaluate_implication_as_and(f.first, m)
        IN  IF IsRaised(a) THEN a ELSE Return(~a.value)
    ELSE
        LET a == evaluate_implication_as_and(f.first, m)
        IN  IF IsRaised(a) THEN a
            ELSE IF f.root = <<"|">> THEN
                IF a.value THEN a ELSE evaluate_implication_as_and(f.second, m)
            ELSE
                IF ~a.value THEN a ELSE evaluate_implication_as_and(f.second, m)

\* evaluate(formula, model): Return(bool), or AssertionError when the model
\* is not a model or lacks a variable of the formula.  `or` and `and`
\* evaluate the second operand only when the first does not decide.
RECURSIVE evaluate(_, _)
evaluate(f, m) ==
    IF ~is_model(m) THEN AssertionError
    ELSE IF ~(formula_variables(f) \subseteq model_variables(m)) THEN AssertionError
    ELSE IF is_variable(f.root) THEN Return(Lookup(m, f.root))
    ELSE IF is_constant(f.root) THEN
        IF f.root = <<"T">> THEN Return(TRUE) ELSE Return(FALSE)
    ELSE IF is_unary(f.root) THEN
        LET a == evaluate(f.first, m)
        IN  IF IsRaised(a) THEN a ELSE Return(~a.value)
    ELSE
        LET a == evaluate(f.first, m)
        IN  IF IsRaised(a) THEN a
            ELSE IF f.root = <<"|">> THEN
                IF a.value THEN a ELSE evaluate(f.second, m)
            ELSE IF f.root = <<"&">> THEN
                IF ~a.value THEN a ELSE evaluate(f.second, m)
            ELSE
                IF ~a.value THEN Return(TRUE) ELSE evaluate(f.second, m)

\* The product with ys as the outer loop.
ProductUnionInnerFirst(xs, ys) ==
    [k \in 1..(Len(xs) * Len(ys)) |->
        DictUnion(xs[((k - 1) % Len(xs)) + 1], ys[((k - 1) \div Len(xs)) + 1])]

\* itertools.product(xs, ys) mapped through x[0] | x[1]: xs is the outer loop.
RECURSIVE ProductUnion(_, _)
ProductUnion(xs, ys) ==
    IF xs = <<>> THEN <<>>
    ELSE [j \in DOMAIN ys |-> DictUnion(xs[1], ys[j])] \o ProductUnion(Tail(xs), ys)

\* all_models(variables): the body of the for loop returns in its first
\* iteration; over an empty list the loop body never runs and the function
\* returns None.
RECURSIVE all_models(_)
all_models(vs) ==
    IF vs = <<>> THEN None
    ELSE
    LET v == vs[1]
        two == << <<<<v, FALSE>>>>, <<<<v, TRUE>>>> >>
    IN  IF ~is_variable(v) THEN AssertionError
        ELSE IF Tail(vs) = <<>> THEN two
        ELSE LET sub == all_models(Tail(vs))
             IN  IF IsRaised(sub) THEN sub ELSE ProductUnion(two, sub)

\* truth_values(formula, models): one boolean per model, in order.
truth_values(f, models) ==
    [i \in DOMAIN models |-> evaluate(f, models[i]).value]

\* is_tautology without the `if not models` case: over no models the loop
\* finds no falsifying model.
is_tautology_without_special_case(f, order) ==
    LET models == all_models(order)
    IN  IF models = None THEN TRUE
        ELSE \A i \in DOMAIN models : evaluate(f, models[i]).value

\* is_tautology(formula), with order the list that list(formula.variables())
\* gives (a set has no order of its own).
is_tautology(f, order) ==
    LET models == all_models(order)
    IN  IF models = None
        THEN evaluate(f, << <<<<"p">>, TRUE>> >>).value
        ELSE \A i \in DOMAIN models : evaluate(f, models[i]).value

\* is_contradiction that tests the formula itself instead of its negation.
is_contradiction_without_negation(f, order) == is_tautology(f, order)

is_contradiction(f, order) == is_tautology(Formula(<<"~">>, f, None), order)

is_satisfiable(f, order) == ~is_contradiction(f, order)

\* The left-to-right fold formula = items[0]; formula = Formula(op, formula, x)
\* that ends both clause builders and both synthesizers.
RECURSIVE FoldLeft(_, _, _)
FoldLeft(op, acc, items) ==
    IF items = <<>> THEN acc
    ELSE FoldLeft(op, Formula(op, acc, items[1]), Tail(items))

\* _synthesize_for_model with the two branches of `if model[key]` swapped.
synthesize_for_model_flipped(m) ==
    IF ~is_model(m) \/ Len(m) = 0 THEN AssertionError
    ELSE
    LET clauses == [i \in DOMAIN m |->
                      IF ~m[i][2] THEN Formula(m[i][1], None, None)
                      ELSE Formula(<<"~">>, Formula(m[i][1], None, None), None)]
    IN  FoldLeft(<<"&">>, clauses[1], Tail(clauses))

\* _synthesize_for_model(model): the conjunctive clause true only in model.
synthesize_for_model(m) ==
    IF ~is_model(m) \/ Len(m) = 0 THEN AssertionError
    ELSE
    LET clauses == [i \in DOMAIN m |->
                      IF m[i][2] THEN Formula(m[i][1], None, None)
                      ELSE Formula(<<"~">>, Formula(m[i][1], None, None), None)]
    IN  FoldLeft(<<"&">>, clauses[1], Tail(clauses))

\* The enumerate(values) loop's choice of rows: the items whose flag is
\* wanted, in order.
RECURSIVE Select(_, _, _)
Select(items, flags, wanted) ==
    IF flags = <<>> THEN <<>>
    ELSE (IF flags[1] = wanted THEN <<items[1]>> ELSE <<>>)
         \o Select(Tail(items), Tail(flags), wanted)

\* synthesize with the fallback clauses joined by "&" in a loop of their
\* own instead of the final "|" loop.
synthesize_fallback_joined_by_and(vs, vals) ==
    IF Len(vs) = 0 THEN AssertionError
    ELSE
    LET models == all_models(vs)
    IN
    IF IsRaised(models) THEN models
    ELSE
    LET rows == Select(models, vals, TRUE)
        ands == [i \in DOMAIN rows |-> synthesize_for_model(rows[i])]
        fallback == [i \in DOMAIN vs |->
                       Formula(<<"&">>, Formula(vs[i], None, None),
                               Formula(<<"~">>, Formula(vs[i], None, None), None))]
    IN  IF rows # <<>> THEN FoldLeft(<<"|">>, ands[1], Tail(ands))
        ELSE FoldLeft(<<"&">>, fallback[1], Tail(fallback))

\* synthesize(variables, values): DNF over the rows that are true; with no
\* true row, one (v&~v) per variable, joined by the same final "|" loop.
synthesize(vs, vals) ==
    IF Len(vs) = 0 THEN AssertionError
    ELSE
    LET models == all_models(vs)
    IN
    IF IsRaised(models) THEN models
    ELSE
    LET rows == Select(models, vals, TRUE)
        ands == IF rows # <<>>
                THEN [i \in DOMAIN rows |-> synthesize_for_model(rows[i])]
                ELSE [i \in DOMAIN vs |->
                        Formula(<<"&">>, Formula(vs[i], None, None),
                                Formula(<<"~">>, Formula(vs[i], None, None), None))]
    IN  FoldLeft(<<"|">>, ands[1], Tail(ands))

\* _synthesize_for_all_except_model with the two branches of `if flag`
\* swapped.
synthesize_for_all_except_model_flipped(m) ==
    IF ~is_model(m) \/ Len(m) = 0 THEN AssertionError
    ELSE
    LET literals == [i \in DOMAIN m |->
                       IF ~m[i][2]
                       THEN Formula(<<"~">>, Formula(m[i][1], None, None), None)
                       ELSE Formula(m[i][1], None, None)]
    IN  FoldLeft(<<"|">>, literals[1], Tail(literals))

\* _synthesize_for_all_except_model(model): the disjunctive clause false
\* only in model.
synthesize_for_all_except_model(m) ==
    IF ~is_model(m) \/ Len(m) = 0 THEN AssertionError
    ELSE
    LET literals == [i \in DOMAIN m |->
                       IF m[i][2]
                       THEN Formula(<<"~">>, Formula(m[i][1], None, None), None)
                       ELSE Formula(m[i][1], None, None)]
    IN  FoldLeft(<<"|">>, literals[1], Tail(literals))

\* synthesize_cnf(variables, values): CNF over the rows that are false; with
\* no false row, one (v|~v) per variable, joined by "&".
synthesize_cnf(vs, vals) ==
    IF Len(vs) = 0 THEN AssertionError
    ELSE
    LET models == all_models(vs)
    IN
    IF IsRaised(models) THEN models
    ELSE
    LET rows == Select(models, vals, FALSE)
        clauses == IF rows # <<>>
                   THEN [i \in DOMAIN rows |-> synthesize_for_all_except_model(rows[i])]
                   ELSE [i \in DOMAIN vs |->
                           Formula(<<"|">>, Formula(vs[i], None, None),
                                   Formula(<<"~">>, Formula(vs[i], None, None), None))]
    IN  FoldLeft(<<"&">>, clauses[1], Tail(clauses))

---------------------------------------------------------------------------
(* Inputs.                                                                 *)

Alphabet == {"p", "q", "7", "T", "F", "~", "&", "|", "-", ">", "(", ")"}

BinaryOperators == {<<"&">>, <<"|">>, <<"-", ">">>}

VariableNames == {<<"p">>, <<"q", "7">>, <<"r">>}

\* Leaves of the formulas whose strings are parsed, and of the formulas that
\* are evaluated and classified.
SyntaxAtoms == {<<"p">>, <<"q", "7">>, <<"T">>}

SemanticsAtoms == {<<"p">>, <<"q", "7">>, <<"T">>, <<"F">>}

\* The formulas with exactly n nodes that the constructor builds over atoms.
RECURSIVE FormulasOfSize(_, _)
FormulasOfSize(atoms, n) ==
    IF n = 1 THEN {Formula(a, None, None) : a \in atoms}
    ELSE {Formula(<<"~">>, f, None) : f \in FormulasOfSize(atoms, n - 1)}
         \cup UNION {{Formula(op, l, r) : op \in BinaryOperators,
                                          l \in FormulasOfSize(atoms, k),
                                          r \in FormulasOfSize(atoms, n - 1 - k)}
                     : k \in 1..(n - 2)}

Formulas(atoms, n) == UNION {FormulasOfSize(atoms, k) : k \in 1..n}

RECURSIVE StringsOfLen(_)
StringsOfLen(n) ==
    IF n = 0 THEN {<<>>}
    ELSE {Append(s, c) : s \in StringsOfLen(n - 1), c \in Alphabet}

RawStrings == UNION {StringsOfLen(n) : n \in 0..MaxRaw}

GrammarStrings == {repr(f) : f \in Formulas(SyntaxAtoms, MaxNodes)}

DeleteAt(s, i) == SubSeq(s, 1, i - 1) \o SubSeq(s, i + 1, Len(s))

\* The strings of the formulas of at most MaxNodes - 2 nodes.
ShortGrammarStrings == {repr(f) : f \in Formulas(SyntaxAtoms, MaxNodes - 2)}

\* Formula strings with one character missing, or followed by a character
\* or by another formula string.
DamagedStrings ==
    UNION {{DeleteAt(s, i) : i \in 1..Len(s)} : s \in GrammarStrings}
    \cup {s \o <<c>> : s \in ShortGrammarStrings, c \in Alphabet}
    \cup {s \o t : s \in ShortGrammarStrings, t \in ShortGrammarStrings}

InputStrings == GrammarStrings \cup RawStrings \cup DamagedStrings

\* The lists of pairwise distinct names, of length n and of length up to n.
RECURSIVE ListsOfLen(_, _)
ListsOfLen(names, n) ==
    IF n = 0 THEN {<<>>}
    ELSE {Append(l, v) : l \in ListsOfLen(names, n - 1), v \in names}

DistinctLists(names, n) ==
    {l \in UNION {ListsOfLen(names, k) : k \in 0..n} :
        \A i, j \in DOMAIN l : i # j => l[i] # l[j]}

\* Every dict with the keys of list l, in that order.
DictsOver(l) ==
    {[i \in DOMAIN l |-> <<l[i], b[i]>>] : b \in [DOMAIN l -> BOOLEAN]}

InputModels ==
    UNION {DictsOver(l) : l \in DistinctLists({<<"p">>, <<"q", "7">>}, 2)}

RECURSIVE Pow2(_)
Pow2(n) == IF n = 0 THEN 1 ELSE 2 * Pow2(n - 1)

\* The orders in which list(a set) may give the elements.
Orders(S) == {l \in ListsOfLen(S, Cardinality(S)) : Keys([i \in DOMAIN l |-> <<l[i], TRUE>>]) = S}

SubstitutionMaps ==
    { <<>>,
      << <<<<"p">>, Formula(<<"q", "7">>, None, None)>> >>,
      << <<<<"p">>, Formula(<<"q", "7">>, None, None)>>,
         <<<<"q", "7">>, Formula(<<"p">>, None, None)>> >>,
      << <<<<"p">>, Formula(<<"&">>, Formula(<<"q", "7">>, None, None),
                                    Formula(<<"r">>, None, None))>>,
         <<<<"r">>, Formula(<<"p">>, None, None)>> >>,
      << <<<<"q", "7">>, Formula(<<"~">>, Formula(<<"q", "7">>, None, None), None)>> >> }

---------------------------------------------------------------------------
(* The parser: a string comes in and one function is called on it.        *)

InitSyntax ==
    /\ string \in InputStrings
    /\ formula = None
    /\ model = <<>>
    /\ substitution_map = <<>>
    /\ variables = <<>>
    /\ values = <<>>
    /\ call = "init"
    /\ ret = None

CallParseStr ==
    /\ call = "init"
    /\ string # <<>>
    /\ call' = "parse_str"
    /\ ret' = Return(parse_str(string))
    /\ UNCHANGED <<string, formula, model, substitution_map, variables, values>>

CallParsePrefix ==
    /\ call = "init"
    /\ call' = "_parse_prefix"
    /\ ret' = parse_prefix(string)
    /\ UNCHANGED <<string, formula, model, substitution_map, variables, values>>

CallIsFormula ==
    /\ call = "init"
    /\ call' = "is_formula"
    /\ ret' = is_formula(string)
    /\ UNCHANGED <<string, formula, model, substitution_map, variables, values>>

CallParse ==
    /\ call = "init"
    /\ call' = "parse"
    /\ ret' = parse(string)
    /\ UNCHANGED <<string, formula, model, substitution_map, variables, values>>

NextSyntax == CallParseStr \/ CallParsePrefix \/ CallIsFormula \/ CallParse

SpecSyntax == InitSyntax /\ [][NextSyntax]_vars

---------------------------------------------------------------------------
(* Formula objects: a formula built with the constructor comes in.        *)

InitFormula ==
    /\ string = <<>>
    /\ formula \in Formulas(SemanticsAtoms, MaxNodes)
    /\ model = <<>>
    /\ substitution_map = <<>>
    /\ variables = <<>>
    /\ values = <<>>
    /\ call = "init"
    /\ ret = None

\* str(formula)
CallRepr ==
    /\ call = "init"
    /\ formula # None
    /\ call' = "__repr__"
    /\ string' = repr(formula)
    /\ ret' = Return(string')
    /\ UNCHANGED <<formula, model, substitution_map, variables, values>>

\* Formula.parse(str(formula))
CallParseRepr ==
    /\ call = "init"
    /\ formula # None
    /\ call' = "parse"
    /\ string' = repr(formula)
    /\ ret' = parse(string')
    /\ UNCHANGED <<formula, model, substitution_map, variables, values>>

CallSubstituteVariables ==
    /\ call = "init"
    /\ formula # None
    /\ \E m \in SubstitutionMaps :
        /\ call' = "substitute_variables"
        /\ substitution_map' = m
        /\ ret' = substitute_variables(formula, m)
        /\ UNCHANGED <<string, formula, model, variables, values>>

CallIsTautology ==
    /\ call = "init"
    /\ formula # None
    /\ \E order \in Orders(formula_variables(formula)) :
        /\ call' = "is_tautology"
        /\ ret' = Return(is_tautology(formula, order))
        /\ UNCHANGED <<string, formula, model, substitution_map, variables, values>>

CallIsContradiction ==
    /\ call = "init"
    /\ formula # None
    /\ \E order \in Orders(formula_variables(formula)) :
        /\ call' = "is_contradiction"
        /\ ret' = Return(is_contradiction(formula, order))
        /\ UNCHANGED <<string, formula, model, substitution_map, variables, values>>

CallIsSatisfiable ==
    /\ call = "init"
    /\ formula # None
    /\ \E order \in Orders(formula_variables(formula)) :
        /\ call' = "is_satisfiable"
        /\ ret' = Return(is_satisfiable(formula, order))
        /\ UNCHANGED <<string, formula, model, substitution_map, variables, values>>

\* The three classifiers and is_tautology of the negation, called one after
\* the other on the same formula; each call lists the variables anew.
CallClassify ==
    /\ call = "init"
    /\ formula # None
    /\ \E o1, o2, o3, o4 \in Orders(formula_variables(formula)) :
        /\ call' = "classify"
        /\ ret' = [is_tautology |-> is_tautology(formula, o1),
                   is_contradiction |-> is_contradiction(formula, o2),
                   is_satisfiable |-> is_satisfiable(formula, o3),
                   is_tautology_of_negation |->
                       is_tautology(Formula(<<"~">>, formula, None), o4)]
        /\ UNCHANGED <<string, formula, model, substitution_map, variables, values>>

NextFormula ==
    \/ CallRepr
    \/ CallParseRepr
    \/ CallSubstituteVariables
    \/ CallIsTautology
    \/ CallIsContradiction
    \/ CallIsSatisfiable
    \/ CallClassify

SpecFormula == InitFormula /\ [][NextFormula]_vars

---------------------------------------------------------------------------
(* The evaluator: a formula and a dict come in.                           *)

InitEvaluate ==
    /\ string = <<>>
    /\ formula \in Formulas(SemanticsAtoms, MaxNodes)
    /\ model \in InputModels
    /\ substitution_map = <<>>
    /\ variables = <<>>
    /\ values = <<>>
    /\ call = "init"
    /\ ret = None

CallEvaluate ==
    /\ call = "init"
    /\ formula # None
    /\ call' = "evaluate"
    /\ ret' = evaluate(formula, model)
    /\ UNCHANGED <<string, formula, model, substitution_map, variables, values>>

NextEvaluate == CallEvaluate

SpecEvaluate == InitEvaluate /\ [][NextEvaluate]_vars

---------------------------------------------------------------------------
(* Enumeration and synthesis: a list of distinct names and a truth-table  *)
(* column with one value per model come in.                               *)

InitSynthesis ==
    /\ string = <<>>
    /\ formula = None
    /\ model = <<>>
    /\ substitution_map = <<>>
    /\ variables \in DistinctLists(VariableNames, MaxVars)
    /\ values \in [1..Pow2(Len(variables)) -> BOOLEAN]
    /\ call = "init"
    /\ ret = None

CallAllModels ==
    /\ call = "init"
    /\ call' = "all_models"
    /\ ret' = Return(all_models(variables))
    /\ UNCHANGED <<string, formula, model, substitution_map, variables, values>>

CallSynthesize ==
    /\ call = "init"
    /\ call' = "synthesize"
    /\ ret' = synthesize(variables, values)
    /\ UNCHANGED <<string, formula, model, substitution_map, variables, values>>

CallSynthesizeCnf ==
    /\ call = "init"
    /\ call' = "synthesize_cnf"
    /\ ret' = synthesize_cnf(variables, values)
    /\ UNCHANGED <<string, formula, model, substitution_map, variables, values>>

NextSynthesis == CallAllModels \/ CallSynthesize \/ CallSynthesizeCnf

SpecSynthesis == InitSynthesis /\ [][NextSynthesis]_vars

---------------------------------------------------------------------------
(* The whole library: any of the four kinds of input, any call on it.     *)

Init == InitSyntax \/ InitFormula \/ InitEvaluate \/ InitSynthesis

Next == NextSyntax \/ NextFormula \/ NextEvaluate \/ NextSynthesis

Spec == Init /\ [][Next]_vars

---------------------------------------------------------------------------
(* Properties.                                                             *)

\* The formula grammar, as a recognizer of strings: a variable [p-z][0-9]*,
\* T or F, ~ followed by a formula, or (formula op formula).
IsVariableName(s) ==
    /\ Len(s) >= 1
    /\ s[1] \in LowerPZ
    /\ \A i \in 2..Len(s) : s[i] \in Decimals

RECURSIVE InGrammar(_)
InGrammar(s) ==
    \/ IsVariableName(s)
    \/ s = <<"T">>
    \/ s = <<"F">>
    \/ (Len(s) >= 2 /\ s[1] = "~" /\ InGrammar(Tail(s)))
    \/ /\ Len(s) >= 5
       /\ s[1] = "("
       /\ s[Len(s)] = ")"
       /\ \E i \in 3..(Len(s) - 2) :
            \/ /\ s[i] \in {"&", "|"}
               /\ InGrammar(SubSeq(s, 2, i - 1))
               /\ InGrammar(SubSeq(s, i + 1, Len(s) - 1))
            \/ /\ s[i] = "-"
               /\ s[i + 1] = ">"
               /\ InGrammar(SubSeq(s, 2, i - 1))
               /\ InGrammar(SubSeq(s, i + 2, Len(s) - 1))

\* C1: for every string of the formula grammar, is_formula returns True and
\* parse returns a formula whose standard string is that very string.
C1_RoundTripFromText ==
    InGrammar(string) =>
        /\ call = "is_formula" => ret = Return(TRUE)
        /\ call = "parse" => (~IsRaised(ret) /\ ret # None /\ repr(ret) = string)

\* A parsed implication whose left operand is itself parenthesized and ends
\* in a variable name with a digit.
C1_Witness ==
    /\ call = "parse"
    /\ InGrammar(string)
    /\ ~IsRaised(ret)
    /\ ret.root = <<"-", ">">>
    /\ is_binary(ret.first.root)
    /\ ret.first.second.root = <<"q", "7">>
    /\ repr(ret) = string

\* C2: parsing the standard string of a formula built with the constructor
\* succeeds and gives back the same tree: same root, same first and second
\* operands all the way down (so the standard string determines the tree).
C2_RoundTripFromTrees ==
    (call = "parse" /\ formula # None) => (string = repr(formula) /\ ret = formula)

C2_Witness ==
    /\ call = "parse"
    /\ formula # None
    /\ ret = formula
    /\ formula.root = <<"-", ">">>
    /\ is_binary(formula.second.root)
    /\ is_variable(formula.first.root)
    /\ Len(formula.first.root) = 2

\* C3: for a non-empty list of distinct names and a column of 2^|V| values,
\* the formula synthesize returns evaluates to values[i] in the i-th model
\* of all_models(V), for every i.
C3_SynthesizeCorrect ==
    (call = "synthesize" /\ variables # <<>>) =>
        /\ ~IsRaised(ret)
        /\ \A i \in DOMAIN values :
             evaluate(ret, all_models(variables)[i]) = Return(values[i])

\* The all-false table over two variables.
C3_Witness ==
    /\ call = "synthesize"
    /\ Len(variables) = 2
    /\ \A i \in DOMAIN values : ~values[i]
    /\ ~IsRaised(ret)
    /\ \A i \in DOMAIN values :
         evaluate(ret, all_models(variables)[i]) = Return(FALSE)

\* (v|~v), and their conjunction over the first n names, taken left to right.
TautClause(v) ==
    [root |-> <<"|">>,
     first |-> [root |-> v, first |-> None, second |-> None],
     second |-> [root |-> <<"~">>,
                 first |-> [root |-> v, first |-> None, second |-> None],
                 second |-> None]]

RECURSIVE TautConjunction(_, _)
TautConjunction(vs, n) ==
    IF n = 1 THEN TautClause(vs[1])
    ELSE [root |-> <<"&">>,
          first |-> TautConjunction(vs, n - 1),
          second |-> TautClause(vs[n])]

\* C4: the formula synthesize_cnf returns evaluates to values[i] in the i-th
\* model of all_models(V), for every i; for the all-true column it is the
\* conjunction, left to right over V, of the clauses (v|~v).
C4_SynthesizeCnfCorrect ==
    (call = "synthesize_cnf" /\ variables # <<>>) =>
        /\ ~IsRaised(ret)
        /\ \A i \in DOMAIN values :
             evaluate(ret, all_models(variables)[i]) = Return(values[i])
        /\ (\A i \in DOMAIN values : values[i]) =>
             ret = TautConjunction(variables, Len(variables))

\* The all-true table over two variables.
C4_Witness ==
    /\ call = "synthesize_cnf"
    /\ Len(variables) = 2
    /\ \A i \in DOMAIN values : values[i]
    /\ ret = TautConjunction(variables, 2)

\* Bit j (1 = the first, most significant name) of the n-bit number k.
Bit(k, j, n) == ((k \div Pow2(n - j)) % 2) = 1

\* C5: for a non-empty list V of distinct names all_models returns 2^|V|
\* models, each over exactly the names of V, pairwise different, the i-th
\* (from 0) giving the j-th name bit j of i, the first name being the most
\* significant bit and False (0) coming before True (1).
C5_AllModelsOrder ==
    (call = "all_models" /\ variables # <<>>) =>
        LET models == ret.value
            n == Len(variables)
        IN  /\ Len(models) = Pow2(n)
            /\ \A i \in DOMAIN models :
                 /\ Keys(models[i]) = {variables[j] : j \in 1..n}
                 /\ Len(models[i]) = n
                 /\ \A j \in 1..n :
                      Lookup(models[i], variables[j]) = Bit(i - 1, j, n)
            /\ \A i, k \in DOMAIN models : i # k => models[i] # models[k]

\* all_models(['q7', 'p']): FF, FT, TF, TT with q7 the first key.
C5_Witness ==
    /\ call = "all_models"
    /\ variables = << <<"q", "7">>, <<"p">> >>
    /\ ret = Return(<< << <<<<"q", "7">>, FALSE>>, <<<<"p">>, FALSE>> >>,
                       << <<<<"q", "7">>, FALSE>>, <<<<"p">>, TRUE>> >>,
                       << <<<<"q", "7">>, TRUE>>, <<<<"p">>, FALSE>> >>,
                       << <<<<"q", "7">>, TRUE>>, <<<<"p">>, TRUE>> >> >>)

\* The truth value of a formula by structural recursion, val giving the
\* value of each variable name.
RECURSIVE Truth(_, _)
Truth(f, val) ==
    IF IsVariableName(f.root) THEN val[f.root]
    ELSE IF f.root = <<"T">> THEN TRUE
    ELSE IF f.root = <<"F">> THEN FALSE
    ELSE IF f.root = <<"~">> THEN ~Truth(f.first, val)
    ELSE IF f.root = <<"&">> THEN Truth(f.first, val) /\ Truth(f.second, val)
    ELSE IF f.root = <<"|">> THEN Truth(f.first, val) \/ Truth(f.second, val)
    ELSE ~(Truth(f.first, val) /\ ~Truth(f.second, val))

\* The valuation a dict stands for.
ValuationOf(d) == [k \in Keys(d) |-> Lookup(d, k)]

\* C6: with a valid model whose keys include the variables of the formula,
\* evaluate returns the truth value given by structural recursion, and
\* leaves the model (and the formula) as they were.
C6_EvaluateSemantics ==
    [][(call' = "evaluate" /\ is_model(model)
          /\ formula_variables(formula) \subseteq Keys(model)) =>
         /\ ret' = Return(Truth(formula, ValuationOf(model)))
         /\ model' = model
         /\ formula' = formula]_vars

\* evaluate(~(p&q7), {p: True, q7: False}) is True.
C6_Witness ==
    /\ call = "evaluate"
    /\ repr(formula) = <<"~", "(", "p", "&", "q", "7", ")">>
    /\ model = << <<<<"p">>, TRUE>>, <<<<"q", "7">>, FALSE>> >>
    /\ ret = Return(TRUE)

\* C7: is_tautology returns True exactly when the formula is true under
\* every total assignment to its own variables; with no variables that is
\* the one truth value of the formula.
C7_TautologyDefinition ==
    (call = "is_tautology" /\ formula # None) =>
        /\ ret = Return(\A val \in [formula_variables(formula) -> BOOLEAN] :
                           Truth(formula, val))
        /\ formula_variables(formula) = {} => ret = Return(Truth(formula, <<>>))

\* A variable-free binary formula that is false, reported as no tautology.
C7_Witness ==
    /\ call = "is_tautology"
    /\ formula # None
    /\ formula_variables(formula) = {}
    /\ is_binary(formula.root)
    /\ ret = Return(FALSE)

\* C8: of is_tautology(f), is_contradiction(f), and is_satisfiable(f) without
\* is_tautology(f), exactly one holds; is_contradiction(f) is
\* is_tautology(~f) and is_satisfiable(f) is not is_contradiction(f).
C8_ClassifierConsistency ==
    call = "classify" =>
        LET t == ret.is_tautology
            c == ret.is_contradiction
            s == ret.is_satisfiable /\ ~ret.is_tautology
        IN  /\ (t /\ ~c /\ ~s) \/ (~t /\ c /\ ~s) \/ (~t /\ ~c /\ s)
            /\ ret.is_contradiction = ret.is_tautology_of_negation
            /\ ret.is_satisfiable = ~ret.is_contradiction

\* A formula over two variables that is satisfiable and no tautology.
C8_Witness ==
    /\ call = "classify"
    /\ Cardinality(formula_variables(formula)) = 2
    /\ ~ret.is_tautology
    /\ ~ret.is_contradiction
    /\ ret.is_satisfiable

\* A tree with every operand its root calls for, all the way down.
RECURSIVE WellFormed(_)
WellFormed(f) ==
    /\ f # None
    /\ \/ (IsVariableName(f.root) \/ f.root \in {<<"T">>, <<"F">>})
          /\ f.first = None /\ f.second = None
       \/ f.root = <<"~">> /\ WellFormed(f.first) /\ f.second = None
       \/ f.root \in BinaryOperators /\ WellFormed(f.first) /\ WellFormed(f.second)

\* C9: on a string that is no formula string _parse_prefix returns without
\* raising, either a (complete) formula with a non-empty remainder or
\* (None, non-empty message), and is_formula returns False without raising.
C9_ParseFailuresAreValues ==
    ~InGrammar(string) =>
        /\ call = "_parse_prefix" =>
             /\ ~IsRaised(ret)
             /\ ret.rest # <<>>
             /\ ret.formula # None => WellFormed(ret.formula)
        /\ call = "is_formula" => ret = Return(FALSE)

\* The formula that replaces, in one simultaneous pass, each variable leaf
\* whose name is a key of the mapping by the mapped formula.
RECURSIVE Substituted(_, _)
Substituted(f, smap) ==
    IF IsVariableName(f.root) THEN
        IF f.root \in Keys(smap) THEN Lookup(smap, f.root) ELSE f
    ELSE IF f.first = None THEN f
    ELSE IF f.second = None THEN
        [root |-> f.root, first |-> Substituted(f.first, smap), second |-> None]
    ELSE [root |-> f.root, first |-> Substituted(f.first, smap),
          second |-> Substituted(f.second, smap)]

\* C10: substitute_variables returns the formula with each variable leaf
\* that is a key replaced by the mapped formula, all other nodes kept.
C10_SubstituteVariables ==
    (call = "substitute_variables" /\ formula # None) =>
        ret = Substituted(formula, substitution_map)

\* The nesting depth after the first i characters: opening parentheses
\* minus closing ones.
RECURSIVE Depth(_, _)
Depth(s, i) ==
    IF i = 0 THEN 0
    ELSE Depth(s, i - 1)
         + (IF s[i] = "(" THEN 1 ELSE IF s[i] = ")" THEN -1 ELSE 0)

\* The position of the first ")" that brings the depth back to zero, 0 when
\* the depth never returns to zero.
ClosingIndex(s) ==
    LET closing == {i \in 1..Len(s) : s[i] = ")" /\ Depth(s, i) = 0}
    IN  IF closing = {} THEN 0
        ELSE CHOOSE i \in closing : \A j \in closing : i <= j

\* C11: on a string that starts with "(" parse_str returns the prefix that
\* ends at the first ")" bringing the depth back to zero and everything
\* after it as the remainder, whatever follows; the unit is the single "("
\* only when the depth never returns to zero.
C11_ScannerOnParenthesis ==
    (call = "parse_str" /\ string[1] = "(") =>
        LET end == ClosingIndex(string)
        IN  ret = Return(IF end = 0 THEN <<<<"(">>, Tail(string)>>
                         ELSE <<SliceTo(string, end), SliceFrom(string, end)>>)

\* (v&~v), and the clauses of the first n names joined left to right by op.
ContradictionClause(v) ==
    [root |-> <<"&">>,
     first |-> [root |-> v, first |-> None, second |-> None],
     second |-> [root |-> <<"~">>,
                 first |-> [root |-> v, first |-> None, second |-> None],
                 second |-> None]]

RECURSIVE ContradictionClauses(_, _, _)
ContradictionClauses(op, vs, n) ==
    IF n = 1 THEN ContradictionClause(vs[1])
    ELSE [root |-> op,
          first |-> ContradictionClauses(op, vs, n - 1),
          second |-> ContradictionClause(vs[n])]

\* The variable names that occur in a formula, and whether no valuation of
\* the names of vs makes the formula true.
RECURSIVE NamesIn(_)
NamesIn(f) ==
    IF IsVariableName(f.root) THEN {f.root}
    ELSE IF f.first = None THEN {}
    ELSE IF f.second = None THEN NamesIn(f.first)
    ELSE NamesIn(f.first) \cup NamesIn(f.second)

Unsatisfiable(f, vs) ==
    \A val \in [{vs[i] : i \in DOMAIN vs} -> BOOLEAN] : ~Truth(f, val)

AllFalse == \A i \in DOMAIN values : ~values[i]

\* C12 as stated: with no true value synthesize returns the conjunction,
\* left to right over V, of the clauses (v&~v), which is unsatisfiable and
\* has exactly the variables of V.
C12_FallbackIsConjunction ==
    (call = "synthesize" /\ variables # <<>> /\ AllFalse) =>
        /\ ret = ContradictionClauses(<<"&">>, variables, Len(variables))
        /\ Unsatisfiable(ret, variables)
        /\ NamesIn(ret) = {variables[i] : i \in DOMAIN variables}

\* C12: with no true value synthesize returns the disjunction, left to
\* right over V, of the clauses (v&~v), which is unsatisfiable and has
\* exactly the variables of V.
C12_FallbackIsDisjunction ==
    (call = "synthesize" /\ variables # <<>> /\ AllFalse) =>
        /\ ret = ContradictionClauses(<<"|">>, variables, Len(variables))
        /\ Unsatisfiable(ret, variables)
        /\ NamesIn(ret) = {variables[i] : i \in DOMAIN variables}

\* The all-false table over two variables and its two clauses.
C12_Witness ==
    /\ call = "synthesize"
    /\ Len(variables) = 2
    /\ AllFalse
    /\ ret.root = <<"|">>
    /\ ret.first = ContradictionClause(variables[1])
    /\ ret.second = ContradictionClause(variables[2])

\* C13: all_models of an empty list returns an empty collection of models,
\* and is_tautology of a variable-free formula returns the one truth value
\* of the formula.
C13_EmptyEnumeration ==
    /\ (call = "all_models" /\ variables = <<>>) => ret = Return(<<>>)
    /\ (call = "is_tautology" /\ NamesIn(formula) = {}) =>
          ret = Return(Truth(formula, <<>>))

\* C14: when _parse_prefix returns a formula f with remainder r, the string
\* is the standard string of f followed by r; is_formula returns True only
\* for a string of the grammar, which the parse consumed whole.
C14_ParserSoundness ==
    /\ (call = "_parse_prefix" /\ ~IsRaised(ret) /\ ret.formula # None) =>
          string = repr(ret.formula) \o ret.rest
    /\ (call = "is_formula" /\ ret = Return(TRUE)) =>
          /\ InGrammar(string)
          /\ LET r == parse_prefix(string)
             IN  /\ ~IsRaised(r)
                 /\ r.formula # None
                 /\ r.rest = <<>>
                 /\ repr(r.formula) = string

\* A parenthesized formula returned with a non-empty remainder.
C14_Witness ==
    /\ call = "_parse_prefix"
    /\ ~IsRaised(ret)
    /\ ret.formula # None
    /\ is_binary(ret.formula.root)
    /\ ret.rest # <<>>
    /\ string = repr(ret.formula) \o ret.rest

===========================================================================
